---- MODULE Spec2Model ----
(***************************************************************************)
(* Model of the managed download subsystem, src/module/downloader.py.      *)
(*                                                                         *)
(* The application serves every exposed call on its own gevent greenlet    *)
(* (src/main.py:3-6, src/ui.py:107-110), so callers are interleaved at     *)
(* socket I/O: the port probe of get_available_port, every RPC to the      *)
(* engine and every HTTP read.  One action below is the code a caller runs *)
(* from the completion of one such I/O up to the start of the next one;    *)
(* pc[t] names the I/O the caller is suspended in.                         *)
(***************************************************************************)
EXTENDS Integers, FiniteSets, Sequences, TLC

\* ---- bounds -------------------------------------------------------------
MaxCalls == 2          \* download() calls started in one behaviour
NumFiles == 2          \* output files listed in one transfer's status
MaxName == 2           \* tokens in a file name sent by a server or in a URL

\* ---- program constants --------------------------------------------------
RetryLimit == 15       \* downloader.py:192  if retry_count > 15
MaxAttempts == 2       \* downloader.py:125  for _ in range(2)

Callers == {"A", "B"}
Files == 1..NumFiles

Bypass == "127.0.0.1,localhost"      \* downloader.py:150
Absent == "absent"                   \* os.environ has no no_proxy key
UserVal == "user"                    \* a value set before the program ran

NoEx == [kind |-> "none", at |-> 0]
NoInfo == [status |-> "none", error_code |-> "none"]
NoXfer == [eng |-> 0, status |-> "none", error_code |-> "none"]

\* An option map is a function from its keys to strings.
EmptyMap == [k \in {} |-> ""]
\* A string is a sequence of tokens; NoName is the empty string.
NoName == << >>
NoParam == [present |-> FALSE, wrapped |-> FALSE, value |-> NoName]
NoResp == [has_out |-> FALSE, out |-> NoName, has_cd |-> FALSE, star |-> NoParam,
           plain |-> NoParam, star_first |-> TRUE, base |-> NoName,
           resolved |-> FALSE, filename |-> NoName]

NoOpts == [e6ex |-> FALSE, proxy |-> FALSE, has_options |-> FALSE, options |-> EmptyMap,
           save_dir |-> "None", sent |-> FALSE, submitted |-> EmptyMap]

VARIABLES
    executable,      \* result of _ensure_aria2_path(): TRUE iff aria2c found
    no_proxy,        \* os.environ['no_proxy']
    aria2,           \* global aria2 (0 = None, else the engine it talks to)
    aria2_process,   \* global aria2_process (0 = None)
    launched,        \* number of engine processes started by Popen
    alive,           \* engine processes still running
    xfer,            \* engine side: the transfer submitted by each caller
    disk,            \* listed output files of the transfer on disk after the loop
    target,          \* fallback transport: state of the resolved target file
    pc,              \* where each caller is suspended
    background,      \* download_in_background of the running call
    origin_no_proxy, \* local of download()
    attempt,         \* iterations of init_aria2's loop already failed
    ex,              \* local ex of init_aria2
    client,          \* engine the pending handshake is addressed to
    info,            \* local info of _download
    retry_count,     \* local retry_count of _download
    purge_calls,     \* history: aria2.purge() calls made by the running call
    deleted,         \* history: listed files the running call has removed
    existed,         \* history: the target file was there when its path was resolved
    completed,       \* history: the engine has completed the call's transfer
    opts,            \* arguments of one _download call and the map it passes on
    resp,            \* inputs of one _resolve_simple_filename call and its result
    admin,           \* result of the stop/pause request the UI is waiting for
    streak,          \* history: failed polls since the last answered one
    beat,            \* history: parity of the progress updates of the loop
    outcome,         \* what the finished call handed to its caller
    calls            \* download() calls started so far

vars == <<executable, no_proxy, aria2, aria2_process, launched, alive, xfer,
          disk, target, pc, background, origin_no_proxy, attempt, ex, client,
          info, retry_count, purge_calls, deleted, existed, completed, opts, resp,
          admin, streak, beat,
          outcome, calls>>

engineVars == <<aria2, aria2_process, launched, alive>>
localVars == <<background, origin_no_proxy, attempt, ex, client, info,
               retry_count, streak, beat>>
histVars == <<purge_calls, deleted, existed, completed>>

\* ---- aria2p.Download properties -----------------------------------------
is_active(i) == i.status = "active"
\* is_paused that never holds.
NeverPaused(i) == FALSE

is_paused(i) == i.status = "paused"
is_complete(i) == i.status = "complete"

\* An RPC through handle h is answered only by a running engine.
Reachable(h) == h # 0 /\ h \in alive

\* ---- download(): the finally block, lines 158-162 -------------------------
\* del os.environ['no_proxy'] raises KeyError when the key is already gone,
\* and an exception raised in a finally block replaces the pending outcome.
RestoredEnv(t) ==
    IF origin_no_proxy[t] = Absent THEN Absent ELSE origin_no_proxy[t]

RestoreRaises(t) == origin_no_proxy[t] = Absent /\ no_proxy = Absent

Leave(t, out) ==
    /\ pc' = [pc EXCEPT ![t] = "done"]
    /\ outcome' = [outcome EXCEPT ![t] = IF RestoreRaises(t) THEN "KeyError" ELSE out]
    /\ no_proxy' = RestoredEnv(t)

Stay(t, label) ==
    /\ pc' = [pc EXCEPT ![t] = label]
    /\ UNCHANGED <<outcome, no_proxy>>

InitRest ==
    /\ executable \in BOOLEAN
    /\ aria2 = 0
    /\ aria2_process = 0
    /\ launched = 0
    /\ alive = {}
    /\ xfer = [t \in Callers |-> NoXfer]
    /\ disk = [t \in Callers |-> {}]
    /\ target = [t \in Callers |-> "unresolved"]
    /\ pc = [t \in Callers |-> "idle"]
    /\ background = [t \in Callers |-> FALSE]
    /\ origin_no_proxy = [t \in Callers |-> Absent]
    /\ attempt = [t \in Callers |-> 0]
    /\ ex = [t \in Callers |-> NoEx]
    /\ client = [t \in Callers |-> 0]
    /\ info = [t \in Callers |-> NoInfo]
    /\ retry_count = [t \in Callers |-> 0]
    /\ purge_calls = [t \in Callers |-> 0]
    /\ deleted = [t \in Callers |-> {}]
    /\ existed = [t \in Callers |-> FALSE]
    /\ completed = [t \in Callers |-> FALSE]
    /\ admin = "none"
    /\ streak = [t \in Callers |-> 0]
    /\ beat = [t \in Callers |-> FALSE]
    /\ outcome = [t \in Callers |-> "none"]
    /\ calls = 0

Init == no_proxy = Absent /\ opts = NoOpts /\ resp = NoResp /\ InitRest

\* ---- init_aria2 / _init_aria2, lines 76-133 -------------------------------
\* A pass of the loop body starts with `if aria2: return` (line 79), which
\* ends init_aria2 so that _download goes on to add_uris; otherwise the caller
\* is suspended in the port probe of get_available_port (line 84).
\* InitExcept with the handle left in place: `aria2 = aria2_process = None`
\* of line 132 forgotten.
InitExceptKeepsHandle(t, k) ==
    /\ ex' = [ex EXCEPT ![t] = [kind |-> k, at |-> attempt[t] + 1]]
    /\ attempt' = [attempt EXCEPT ![t] = attempt[t] + 1]
    /\ UNCHANGED <<aria2, aria2_process>>
    /\ IF attempt[t] + 1 < MaxAttempts
       THEN Stay(t, "port")
       ELSE Leave(t, "InitError")

\* The except clause of init_aria2 (lines 129-132) after the attempt that
\* failed with error kind k, then either the next pass or `raise ex`.
InitExcept(t, k) ==
    /\ ex' = [ex EXCEPT ![t] = [kind |-> k, at |-> attempt[t] + 1]]
    /\ attempt' = [attempt EXCEPT ![t] = attempt[t] + 1]
    /\ aria2' = 0
    /\ aria2_process' = 0
    /\ IF attempt[t] + 1 < MaxAttempts
       THEN Stay(t, "port")
       ELSE Leave(t, "InitError")

\* ---- download(), lines 148-157 ------------------------------------------
\* EngineAvailable with the lookup of the executable taken to succeed.
EngineAssumed == TRUE

\* `if aria2 or resolved`, line 153.
EngineAvailable == aria2 # 0 \/ executable

\* Route without the test of download_in_background of line 155.
RouteIgnoresBackground(bg) ==
    IF EngineAvailable THEN "rpc" ELSE "fallback"

\* Lines 153-157: the RPC path, the refusal of a background request that no
\* engine can serve, or the fallback transport.
Route(bg) ==
    IF EngineAvailable THEN "rpc"
    ELSE IF bg THEN "reject"
    ELSE "fallback"

\* Callers are interchangeable, so the first call of a behaviour is A's.
\* _simple_download starts by creating the destination directory (line 266)
\* and sending the HTTP request (line 270).
Call(t) ==
    /\ pc[t] = "idle"
    /\ calls < MaxCalls
    /\ calls = 0 => t = "A"
    /\ calls' = calls + 1
    /\ \E bg \in BOOLEAN :
        /\ background' = [background EXCEPT ![t] = bg]
        /\ origin_no_proxy' = [origin_no_proxy EXCEPT ![t] = no_proxy]
        /\ CASE Route(bg) = "rpc" ->
                /\ pc' = [pc EXCEPT ![t] = IF aria2 # 0 THEN "add_uris" ELSE "port"]
                /\ no_proxy' = Bypass
                /\ UNCHANGED <<outcome, target>>
             [] Route(bg) = "reject" ->
                \* raise RuntimeError, then the finally block
                /\ pc' = [pc EXCEPT ![t] = "done"]
                /\ outcome' = [outcome EXCEPT ![t] = "BackgroundUnsupported"]
                /\ no_proxy' = no_proxy
                /\ UNCHANGED target
             [] Route(bg) = "fallback" ->
                /\ pc' = [pc EXCEPT ![t] = "http_get"]
                /\ no_proxy' = Bypass
                /\ target' = [target EXCEPT ![t] = "requested"]
                /\ UNCHANGED outcome
    /\ UNCHANGED <<executable, opts, resp, admin, histVars, engineVars, xfer, disk, attempt, ex,
                   client, info, retry_count, streak, beat>>

\* get_available_port returned; lines 85-118 up to the handshake RPC.
\* Without an executable _init_aria2 raises RuntimeError (lines 80-83);
\* otherwise Popen either starts a process or raises.
Launch(t) ==
    /\ pc[t] = "port"
    /\ \E started \in BOOLEAN :
        IF ~executable
        THEN /\ InitExcept(t, "EngineUnavailable")
             /\ UNCHANGED <<launched, alive, client>>
        ELSE IF started
        THEN /\ launched' = launched + 1
             /\ alive' = alive \cup {launched + 1}
             /\ aria2_process' = launched + 1
             /\ aria2' = launched + 1
             /\ client' = [client EXCEPT ![t] = launched + 1]
             /\ Stay(t, "handshake")
             /\ UNCHANGED <<attempt, ex>>
        ELSE /\ InitExcept(t, "PopenError")
             /\ UNCHANGED <<launched, alive, client>>
    /\ UNCHANGED <<executable, opts, resp, admin, histVars, xfer, disk, target, background, origin_no_proxy,
                   info, retry_count, streak, beat, calls>>

\* aria2.set_global_options(...) answered or failed, line 118.  It fails when
\* the process has exited (it could not bind the port, say) or when the
\* process runs but does not answer within the client's timeout.
Handshake(t) ==
    /\ pc[t] = "handshake"
    /\ \E ok \in BOOLEAN, exited \in BOOLEAN :
        IF ok
        THEN \* init_aria2 returns and its locals are gone
             /\ Stay(t, "add_uris")
             /\ attempt' = [attempt EXCEPT ![t] = 0]
             /\ ex' = [ex EXCEPT ![t] = NoEx]
             /\ client' = [client EXCEPT ![t] = 0]
             /\ UNCHANGED <<aria2, aria2_process, alive>>
        ELSE /\ InitExcept(t, "HandshakeError")
             /\ alive' = IF exited THEN alive \ {client[t]} ELSE alive
             /\ UNCHANGED client
    /\ UNCHANGED <<executable, opts, resp, admin, histVars, launched, xfer, disk, target, background,
                   origin_no_proxy, info, retry_count, streak, beat, calls>>

\* ---- _download, lines 165-220 ---------------------------------------------
\* What the engine answers to get_download(gid) for caller t's transfer.
StatusOf(t) == [status |-> xfer[t].status, error_code |-> xfer[t].error_code]

\* get_download(gid) through the global handle is answered.
Answered(t) ==
    /\ Reachable(aria2)
    /\ xfer[t].eng = aria2
    /\ xfer[t].status # "none"

\* ClassifyError with every code other than '13' taken as an interruption.
ClassifyErrorAsInterrupted(code) ==
    IF code = "13" THEN "exists" ELSE "interrupted"

\* Lines 199-213: the branches on a code that is not '0'.
ClassifyError(code) ==
    IF code = "13" THEN "exists"
    ELSE IF code = "31" THEN "interrupted"
    ELSE "failed"

\* Classify with code '13' treated like any other error code.
ClassifyRefusesExisting(i) ==
    IF is_paused(i) THEN "paused"
    ELSE IF i.error_code # "0"
    THEN IF i.error_code = "31" THEN "interrupted" ELSE "failed"
    ELSE IF ~is_complete(i) THEN "not_completed"
    ELSE "complete"

\* The tests of lines 196-217 on the status i the loop ended with, in the
\* order of the code.  error_code is null ("none") for a transfer that is
\* waiting, active or paused, and `None != '0'` is true.
Classify(i) ==
    IF is_paused(i) THEN "paused"
    ELSE IF i.error_code # "0" THEN ClassifyError(i.error_code)
    ELSE IF ~is_complete(i) THEN "not_completed"
    ELSE "complete"

\* Lines 194-217 for the status i the loop ended with: the classification,
\* the removal of the listed files on code '31' (os.remove may raise for a
\* file that exists), and either an outcome or the purge RPC of line 219.
\* The controller first looks at the output files here: `present` is the set
\* of listed files the engine has left on disk (all of them when the
\* transfer is complete or was refused because they already exist).
AfterLoop(t, i) ==
    \E present \in SUBSET Files :
      /\ i.error_code \in {"0", "13"} => present = Files
      /\ IF Classify(i) = "interrupted" /\ ~is_complete(i)
         THEN \E failAt \in {0} \cup present :
                IF failAt = 0
                THEN /\ disk' = [disk EXCEPT ![t] = {}]
                     /\ deleted' = [deleted EXCEPT ![t] = present]
                     /\ Leave(t, "DownloadInterrupted")
                ELSE /\ disk' = [disk EXCEPT ![t] = {f \in present : f >= failAt}]
                     /\ deleted' = [deleted EXCEPT ![t] = {f \in present : f < failAt}]
                     /\ Leave(t, "OSError")
         ELSE /\ disk' = [disk EXCEPT ![t] = present]
              /\ UNCHANGED deleted
              /\ CASE Classify(i) = "paused" -> Leave(t, "DownloadPaused")
                   [] Classify(i) = "exists" -> Leave(t, "ok")
                   [] Classify(i) = "interrupted" -> Leave(t, "DownloadInterrupted")
                   [] Classify(i) = "failed" -> Leave(t, "DownloadFailed")
                   [] Classify(i) = "not_completed" -> Leave(t, "DownloadNotCompleted")
                   [] Classify(i) = "complete" -> Stay(t, "purge")

\* ReturnsHandle that never holds: a background call goes on to poll.
NeverReturnsHandle(t) == FALSE

\* `if download_in_background: return info`, lines 180-181.
ReturnsHandle(t) == background[t]

\* aria2.add_uris([url], options), line 179, and the return of line 181.
\* The engine queues the transfer as waiting or starts it at once.
AddUris(t) ==
    /\ pc[t] = "add_uris"
    /\ \E ok \in BOOLEAN, st \in {"waiting", "active"} :
        IF aria2 = 0
        THEN Leave(t, "AttributeError") /\ UNCHANGED <<xfer, disk>>
        ELSE IF ok /\ Reachable(aria2)
        THEN /\ xfer' = [xfer EXCEPT ![t] =
                           [eng |-> aria2, status |-> st, error_code |-> "none"]]
             /\ disk' = [disk EXCEPT ![t] = {}]
             /\ IF ReturnsHandle(t) THEN Leave(t, "ok") ELSE Stay(t, "get_download")
        ELSE Leave(t, "SubmitError") /\ UNCHANGED <<xfer, disk>>
    /\ UNCHANGED <<executable, opts, resp, admin, histVars, engineVars, target, localVars, calls>>

\* info = aria2.get_download(info.gid), line 182, outside the try block;
\* then the first test of `while info.is_active`.
GetDownload(t) ==
    /\ pc[t] = "get_download"
    /\ \E ok \in BOOLEAN :
        IF ok /\ Answered(t)
        THEN /\ info' = [info EXCEPT ![t] = StatusOf(t)]
             /\ IF is_active(StatusOf(t))
                THEN Stay(t, "poll") /\ UNCHANGED <<disk, deleted>>
                ELSE AfterLoop(t, StatusOf(t))
        ELSE /\ Leave(t, IF aria2 = 0 THEN "AttributeError" ELSE "FirstPollError")
             /\ UNCHANGED <<info, disk, deleted>>
    /\ UNCHANGED <<executable, opts, resp, admin, purge_calls, existed, completed, engineVars, xfer, target, background,
                   origin_no_proxy, attempt, ex, client, retry_count, streak, beat, calls>>

\* One pass of the loop body, lines 186-193, and the next test of the loop
\* condition: a failed get_download leaves info as it was.  `track` says
\* whether the history variables streak and beat are kept in this behaviour.
PollStep(t, track) ==
    /\ pc[t] = "poll"
    /\ \E ok \in BOOLEAN :
        IF ok /\ Answered(t)
        THEN /\ info' = [info EXCEPT ![t] = StatusOf(t)]
             /\ IF is_active(StatusOf(t))
                THEN /\ Stay(t, "poll")
                     /\ streak' = [streak EXCEPT ![t] = 0]
                     /\ beat' = [beat EXCEPT ![t] = IF track THEN ~beat[t] ELSE beat[t]]
                     /\ UNCHANGED <<retry_count, disk, deleted>>
                ELSE \* the loop is over: retry_count is not read again
                     /\ AfterLoop(t, StatusOf(t))
                     /\ retry_count' = [retry_count EXCEPT ![t] = 0]
                     /\ streak' = [streak EXCEPT ![t] = 0]
                     /\ beat' = [beat EXCEPT ![t] = FALSE]
        ELSE /\ retry_count' = [retry_count EXCEPT ![t] = retry_count[t] + 1]
             /\ streak' = [streak EXCEPT ![t] = IF track THEN streak[t] + 1 ELSE 0]
             /\ UNCHANGED <<info, disk, deleted, beat>>
             /\ IF retry_count[t] + 1 > RetryLimit
                THEN Leave(t, "PollError")
                ELSE Stay(t, "poll")
    /\ UNCHANGED <<executable, opts, resp, admin, purge_calls, existed, completed, engineVars, xfer, target, background,
                   origin_no_proxy, attempt, ex, client, calls>>

Poll(t) == PollStep(t, FALSE)

TrackedPoll(t) == PollStep(t, TRUE)

\* aria2.purge(), line 219: the engine forgets every stopped transfer.
Purged(x) ==
    IF x.eng = aria2 /\ x.status \in {"complete", "error", "removed"}
    THEN NoXfer ELSE x

Purge(t) ==
    /\ pc[t] = "purge"
    /\ \E ok \in BOOLEAN :
        IF ok /\ Reachable(aria2)
        THEN /\ xfer' = [u \in Callers |-> Purged(xfer[u])]
             /\ purge_calls' = [purge_calls EXCEPT ![t] = purge_calls[t] + 1]
             /\ Leave(t, "ok")
        ELSE /\ Leave(t, IF aria2 = 0 THEN "AttributeError" ELSE "PurgeError")
             /\ purge_calls' = [purge_calls EXCEPT ![t] =
                                  IF aria2 = 0 THEN purge_calls[t] ELSE purge_calls[t] + 1]
             /\ UNCHANGED xfer
    /\ UNCHANGED <<executable, opts, resp, admin, deleted, existed, completed, engineVars, disk, target, localVars, calls>>

\* The caller has its result; the locals of the call are gone and the model
\* stops following the transfer and its files.
Return(t) ==
    /\ pc[t] = "done"
    /\ pc' = [pc EXCEPT ![t] = "idle"]
    /\ outcome' = [outcome EXCEPT ![t] = "none"]
    /\ background' = [background EXCEPT ![t] = FALSE]
    /\ origin_no_proxy' = [origin_no_proxy EXCEPT ![t] = Absent]
    /\ attempt' = [attempt EXCEPT ![t] = 0]
    /\ ex' = [ex EXCEPT ![t] = NoEx]
    /\ client' = [client EXCEPT ![t] = 0]
    /\ info' = [info EXCEPT ![t] = NoInfo]
    /\ retry_count' = [retry_count EXCEPT ![t] = 0]
    /\ purge_calls' = [purge_calls EXCEPT ![t] = 0]
    /\ deleted' = [deleted EXCEPT ![t] = {}]
    /\ existed' = [existed EXCEPT ![t] = FALSE]
    /\ completed' = [completed EXCEPT ![t] = FALSE]
    /\ streak' = [streak EXCEPT ![t] = 0]
    /\ beat' = [beat EXCEPT ![t] = FALSE]
    /\ xfer' = [xfer EXCEPT ![t] = NoXfer]
    /\ disk' = [disk EXCEPT ![t] = {}]
    /\ target' = [target EXCEPT ![t] = "unresolved"]
    /\ UNCHANGED <<executable, opts, resp, admin, no_proxy, engineVars, calls>>

\* ---- _simple_download, lines 263-289 --------------------------------------
\* SimpleDownloadInfo, lines 228-235: one listed file, the target.
SimpleInfo == [status |-> "complete", error_code |-> "0"]

\* requests.get(...) and raise_for_status(); on success the target path is
\* resolved, an existing file is unlinked and the file is opened for writing.
\* A failing unlink raises into the except clause, which unlinks again.
HttpGet(t) ==
    /\ pc[t] = "http_get"
    /\ \E ok \in BOOLEAN, exists \in BOOLEAN, unlinkOk \in BOOLEAN, cleanupOk \in BOOLEAN :
        IF ~ok
        THEN Leave(t, "SimpleDownloadFailed") /\ UNCHANGED <<target, existed>>
        ELSE /\ existed' = [existed EXCEPT ![t] = exists]
             /\ IF ~exists \/ unlinkOk
                THEN /\ target' = [target EXCEPT ![t] = "partial"]
                     /\ Stay(t, "stream")
                ELSE IF cleanupOk
                THEN /\ target' = [target EXCEPT ![t] = "absent"]
                     /\ Leave(t, "SimpleDownloadFailed")
                ELSE /\ target' = [target EXCEPT ![t] = "old"]
                     /\ Leave(t, "OSError")
    /\ UNCHANGED <<executable, opts, resp, admin, purge_calls, deleted, completed, engineVars, xfer, disk,
                   localVars, calls>>

\* The chunk loop of lines 279-282, the success return and the except clause.
Stream(t) ==
    /\ pc[t] = "stream"
    /\ \E ok \in BOOLEAN, cleanupOk \in BOOLEAN :
        IF ok
        THEN /\ target' = [target EXCEPT ![t] = "complete"]
             /\ info' = [info EXCEPT ![t] = SimpleInfo]
             /\ Leave(t, "ok")
        ELSE IF cleanupOk
        THEN /\ target' = [target EXCEPT ![t] = "absent"]
             /\ Leave(t, "SimpleDownloadFailed")
             /\ UNCHANGED info
        ELSE Leave(t, "OSError") /\ UNCHANGED <<target, info>>
    /\ UNCHANGED <<executable, opts, resp, admin, histVars, engineVars, xfer, disk, background,
                   origin_no_proxy, attempt, ex, client, retry_count, streak, beat,
                   calls>>

\* ---- stop_download / pause_download, lines 136-145 -----------------------
\* Invoked from the UI while downloads run (src/api/common_api.py:84-99).
\* HasHandle taken to hold without looking at the handle.
HandleAssumed == TRUE

\* `if not aria2: return False`, lines 137 and 143.
HasHandle == aria2 # 0

\* The response the UI gets: False without a handle, the engine's answer to
\* the RPC, or the error of an RPC that failed.  `track` says whether the
\* response is kept in admin in this behaviour.
Responded(track, result) ==
    admin' = IF track THEN result ELSE admin

\* stop_download(): aria2.remove_all() stops every transfer that has not ended.
StopStep(track) ==
    /\ admin = "none"
    /\ IF ~HasHandle
       THEN Responded(track, "False") /\ UNCHANGED xfer
       ELSE IF Reachable(aria2)
       THEN /\ xfer' = [u \in Callers |->
                  IF xfer[u].eng = aria2 /\ xfer[u].status \in {"waiting", "active", "paused"}
                  THEN [xfer[u] EXCEPT !.status = "removed", !.error_code = "31"]
                  ELSE xfer[u]]
            /\ Responded(track, "True")
       ELSE Responded(track, "error") /\ UNCHANGED xfer
    /\ UNCHANGED <<executable, opts, resp, histVars, no_proxy, engineVars, disk, target,
                   pc, localVars, outcome, calls>>

\* pause_download(): aria2.pause_all(force=True).
PauseStep(track) ==
    /\ admin = "none"
    /\ IF ~HasHandle
       THEN Responded(track, "False") /\ UNCHANGED xfer
       ELSE IF Reachable(aria2)
       THEN /\ xfer' = [u \in Callers |->
                  IF xfer[u].eng = aria2 /\ xfer[u].status \in {"waiting", "active"}
                  THEN [xfer[u] EXCEPT !.status = "paused"]
                  ELSE xfer[u]]
            /\ Responded(track, "True")
       ELSE Responded(track, "error") /\ UNCHANGED xfer
    /\ UNCHANGED <<executable, opts, resp, histVars, no_proxy, engineVars, disk, target,
                   pc, localVars, outcome, calls>>

StopDownload == StopStep(FALSE)

PauseDownload == PauseStep(FALSE)

TrackedStop == StopStep(TRUE)

TrackedPause == PauseStep(TRUE)

\* The UI has read the response.
AdminReturn ==
    /\ admin # "none"
    /\ admin' = "none"
    /\ UNCHANGED <<executable, opts, resp, histVars, no_proxy, engineVars, xfer, disk,
                   target, pc, localVars, outcome, calls>>

\* ---- the engine (environment) ------------------------------------------------
EngineStart(t) ==
    /\ xfer[t].eng \in alive
    /\ xfer[t].status = "waiting"
    /\ xfer' = [xfer EXCEPT ![t].status = "active"]
    /\ UNCHANGED <<executable, opts, resp, admin, histVars, no_proxy, engineVars, disk, target, pc, localVars,
                   outcome, calls>>

EngineComplete(t) ==
    /\ xfer[t].eng \in alive
    /\ xfer[t].status = "active"
    /\ xfer' = [xfer EXCEPT ![t].status = "complete", ![t].error_code = "0"]
    /\ completed' = [completed EXCEPT ![t] = TRUE]
    /\ UNCHANGED <<executable, opts, resp, admin, purge_calls, deleted, existed, no_proxy, engineVars, disk, target, pc, localVars,
                   outcome, calls>>

\* '13': the file already exists; '1': any other failure of the transfer.
EngineError(t) ==
    /\ xfer[t].eng \in alive
    /\ xfer[t].status = "active"
    /\ \E code \in {"1", "13"} :
        xfer' = [xfer EXCEPT ![t].status = "error", ![t].error_code = code]
    /\ UNCHANGED <<executable, opts, resp, admin, histVars, no_proxy, engineVars, disk, target, pc, localVars,
                   outcome, calls>>

Next ==
    \/ \E t \in Callers : Call(t)
    \/ \E t \in Callers : Launch(t)
    \/ \E t \in Callers : Handshake(t)
    \/ \E t \in Callers : AddUris(t)
    \/ \E t \in Callers : GetDownload(t)
    \/ \E t \in Callers : Poll(t)
    \/ \E t \in Callers : Purge(t)
    \/ \E t \in Callers : Return(t)
    \/ \E t \in Callers : HttpGet(t)
    \/ \E t \in Callers : Stream(t)
    \/ StopDownload
    \/ PauseDownload
    \/ \E t \in Callers : EngineStart(t)
    \/ \E t \in Callers : EngineComplete(t)
    \/ \E t \in Callers : EngineError(t)

Spec == Init /\ [][Next]_vars

\* download() calls made one after the other: a call starts only when no
\* other call is running.  The UI may still stop or pause downloads.
Sequential(t) == \A u \in Callers \ {t} : pc[u] = "idle"

SeqCall(t) == Sequential(t) /\ Call(t)

SeqNext ==
    \/ \E t \in Callers : SeqCall(t)
    \/ \E t \in Callers : Launch(t)
    \/ \E t \in Callers : Handshake(t)
    \/ \E t \in Callers : AddUris(t)
    \/ \E t \in Callers : GetDownload(t)
    \/ \E t \in Callers : TrackedPoll(t)
    \/ \E t \in Callers : Purge(t)
    \/ \E t \in Callers : Return(t)
    \/ \E t \in Callers : HttpGet(t)
    \/ \E t \in Callers : Stream(t)
    \/ StopDownload
    \/ PauseDownload
    \/ \E t \in Callers : EngineStart(t)
    \/ \E t \in Callers : EngineComplete(t)
    \/ \E t \in Callers : EngineError(t)

SeqInit == no_proxy \in {Absent, UserVal} /\ opts = NoOpts /\ resp = NoResp /\ InitRest

SeqSpec == SeqInit /\ [][SeqNext]_vars

\* Sequential calls with the responses of stop and pause requests kept.
CtlNext ==
    \/ \E t \in Callers : SeqCall(t)
    \/ \E t \in Callers : Launch(t)
    \/ \E t \in Callers : Handshake(t)
    \/ \E t \in Callers : AddUris(t)
    \/ \E t \in Callers : GetDownload(t)
    \/ \E t \in Callers : Poll(t)
    \/ \E t \in Callers : Purge(t)
    \/ \E t \in Callers : Return(t)
    \/ \E t \in Callers : HttpGet(t)
    \/ \E t \in Callers : Stream(t)
    \/ TrackedStop
    \/ TrackedPause
    \/ AdminReturn
    \/ \E t \in Callers : EngineStart(t)
    \/ \E t \in Callers : EngineComplete(t)
    \/ \E t \in Callers : EngineError(t)

CtlSpec == SeqInit /\ [][CtlNext]_vars

\* Every I/O a caller is suspended in ends: an RPC is answered or fails
\* within the client's timeout of 10 s (line 113), an HTTP read within 30 s
\* (line 270).  Nothing obliges the engine to finish a transfer.
CallerStep(t) ==
    \/ Launch(t)
    \/ Handshake(t)
    \/ AddUris(t)
    \/ GetDownload(t)
    \/ TrackedPoll(t)
    \/ Purge(t)
    \/ HttpGet(t)
    \/ Stream(t)

FairSpec == SeqSpec /\ \A t \in Callers : WF_vars(CallerStep(t))

\* ---- the option map of _download, lines 169-178 -----------------------------
\* dict.update: the keys of n are added to m or replace its values.
Update(m, n) ==
    [k \in (DOMAIN m) \cup (DOMAIN n) |-> IF k \in DOMAIN n THEN n[k] ELSE m[k]]

\* network.py:103-113
options_on_proxy ==
    [k \in {"split", "max-connection-per-server", "min-split-size"} |->
        CASE k = "split" -> "16"
          [] k = "max-connection-per-server" -> "16"
          [] k = "min-split-size" -> "4M"]

options_on_cdn ==
    [k \in {"split", "max-connection-per-server", "min-split-size"} |->
        CASE k = "split" -> "4"
          [] k = "max-connection-per-server" -> "4"
          [] k = "min-split-size" -> "12M"]

\* network.py:164-171
init_download_options_with_proxy(e6ex, proxy) ==
    LET ua == [k \in {"user-agent"} |-> IF e6ex THEN "user_agent" ELSE "chrome_ua"]
    IN  IF proxy
        THEN Update(Update(ua, [k \in {"all-proxy"} |-> "proxy_url"]), options_on_proxy)
        ELSE Update(ua, options_on_cdn)

\* Lines 169-178: the defaults, the two policies, the caller's options and
\* last the destination directory.
SubmittedOptions(e6ex, proxy, has_options, options, save_dir) ==
    LET tmp0 == init_download_options_with_proxy(e6ex, proxy)
        tmp1 == Update(tmp0, [k \in {"auto-file-renaming"} |-> "false"])
        tmp2 == Update(tmp1, [k \in {"allow-overwrite"} |-> "false"])
        tmp3 == IF has_options THEN Update(tmp2, options) ELSE tmp2
    IN  Update(tmp3, [k \in {"dir"} |->
                        IF save_dir # "None" THEN save_dir ELSE "download_path"])

\* The option maps a caller may pass: any of these keys, each with one of
\* its values.
OptionValues ==
    [k \in {"allow-overwrite", "auto-file-renaming", "out", "dir", "split"} |->
        CASE k = "allow-overwrite" -> {"true", "false"}
          [] k = "auto-file-renaming" -> {"true"}
          [] k = "out" -> {"a.bin"}
          [] k = "dir" -> {"/caller"}
          [] k = "split" -> {"8"}]

CallerOptions ==
    UNION {{m \in [S -> UNION {OptionValues[k] : k \in DOMAIN OptionValues}] :
                \A k \in S : m[k] \in OptionValues[k]} :
           S \in SUBSET DOMAIN OptionValues}

OptInit ==
    /\ no_proxy = Absent
    /\ resp = NoResp
    /\ InitRest
    /\ \E e \in BOOLEAN, p \in BOOLEAN, h \in BOOLEAN, o \in CallerOptions,
          d \in {"None", "/save", "/caller"} :
         /\ ~h => o = EmptyMap
         /\ opts = [e6ex |-> e, proxy |-> p, has_options |-> h, options |-> o,
                    save_dir |-> d, sent |-> FALSE, submitted |-> EmptyMap]

\* The map is built and handed to add_uris.
BuildOptions ==
    /\ ~opts.sent
    /\ opts' = [opts EXCEPT !.sent = TRUE,
                            !.submitted = SubmittedOptions(opts.e6ex, opts.proxy,
                                              opts.has_options, opts.options,
                                              opts.save_dir)]
    /\ UNCHANGED <<executable, no_proxy, engineVars, xfer, disk, target, pc,
                   localVars, histVars, resp, admin, outcome, calls>>

OptNext == BuildOptions

OptSpec == OptInit /\ [][OptNext]_vars

\* ---- _resolve_simple_filename, lines 238-260 ------------------------------
\* `tok in s`
Contains(s, tok) == \E i \in 1..Len(s) : s[i] = tok

FirstIndex(s, tok) ==
    CHOOSE i \in 1..Len(s) : s[i] = tok /\ \A j \in 1..(i - 1) : s[j] # tok

\* s.split(tok, 1)[1], for s that contains tok
After(s, tok) == SubSeq(s, FirstIndex(s, tok) + 1, Len(s))

\* s.split(tok)[0]
Before(s, tok) ==
    IF Contains(s, tok) THEN SubSeq(s, 1, FirstIndex(s, tok) - 1) ELSE s

RECURSIVE LStrip(_, _)
LStrip(s, chars) ==
    IF s # << >> /\ Head(s) \in chars THEN LStrip(Tail(s), chars) ELSE s

RECURSIVE RStrip(_, _)
RStrip(s, chars) ==
    IF s # << >> /\ s[Len(s)] \in chars THEN RStrip(SubSeq(s, 1, Len(s) - 1), chars) ELSE s

\* s.strip().strip('"\'')
Strip(s) ==
    LET inner == RStrip(LStrip(s, {" "}), {" "})
    IN  RStrip(LStrip(inner, {"\"", "'", "''"}), {"\"", "'", "''"})

\* urllib.parse.unquote: a percent escape becomes the character it encodes.
Unquote(s) == [i \in 1..Len(s) |-> IF s[i] = "%41" THEN "A" ELSE s[i]]

\* os.path.basename
Basename(path) ==
    LET slashes == {i \in 1..Len(path) : path[i] = "/"}
    IN  IF slashes = {} THEN path
        ELSE SubSeq(path, (CHOOSE i \in slashes : \A j \in slashes : j <= i) + 1, Len(path))

\* FromHeader with the two parameters looked at in the other order.
FromHeaderPlainFirst(cd) ==
    LET plain == IF Contains(cd, "filename=")
                 THEN Unquote(Strip(Before(After(cd, "filename="), ";")))
                 ELSE NoName
    IN  IF plain = NoName /\ Contains(cd, "filename*=")
        THEN LET v == Before(After(cd, "filename*="), ";")
                 w == IF Contains(v, "''") THEN After(v, "''") ELSE v
             IN  Unquote(Strip(w))
        ELSE plain

\* Lines 245-253: the name given by a Content-Disposition header, or the
\* empty string.
FromHeader(cd) ==
    LET star == IF Contains(cd, "filename*=")
                THEN LET v == Before(After(cd, "filename*="), ";")
                         w == IF Contains(v, "''") THEN After(v, "''") ELSE v
                     IN  Unquote(Strip(w))
                ELSE NoName
    IN  IF star = NoName /\ Contains(cd, "filename=")
        THEN Unquote(Strip(Before(After(cd, "filename="), ";")))
        ELSE star

\* f'download_{int(time.time() * 1000)}', line 259
GeneratedName == <<"download_", "1000">>

resolve_simple_filename(has_out, out, has_cd, cd, path) ==
    IF has_out /\ out # NoName THEN out
    ELSE LET named == IF has_cd /\ cd # << >> THEN FromHeader(cd) ELSE NoName
             based == IF named = NoName THEN Unquote(Basename(path)) ELSE named
         IN  IF based = NoName THEN GeneratedName ELSE based

\* What a server sends and what a URL holds (the environment of the call).
Names == UNION {[1..n -> {"a", "%41"}] : n \in 0..MaxName}

StarParam(p) ==
    IF ~p.present THEN << >>
    ELSE <<";", " ", "filename*=">> \o (IF p.wrapped THEN <<"UTF-8", "''">> ELSE << >>)
             \o p.value

PlainParam(p) ==
    IF ~p.present THEN << >>
    ELSE <<";", " ", "filename=">>
             \o (IF p.wrapped THEN <<"\"">> \o p.value \o <<"\"">> ELSE p.value)

\* response.headers['content-disposition']
ContentDisposition(r) ==
    <<"attachment">> \o (IF r.star_first
                         THEN StarParam(r.star) \o PlainParam(r.plain)
                         ELSE PlainParam(r.plain) \o StarParam(r.star))

\* urllib.parse.urlparse(url).path
UrlPath(r) == <<"/", "d", "/">> \o r.base

Params == {NoParam} \cup [present : {TRUE}, wrapped : BOOLEAN, value : Names]

FileInit ==
    /\ no_proxy = Absent
    /\ opts = NoOpts
    /\ InitRest
    /\ resp \in [has_out : BOOLEAN, out : {NoName, <<"o">>}, has_cd : BOOLEAN,
                 star : Params, plain : Params, star_first : BOOLEAN, base : Names,
                 resolved : {FALSE}, filename : {NoName}]
    /\ ~resp.has_out => resp.out = NoName
    /\ ~resp.has_cd => (resp.star = NoParam /\ resp.plain = NoParam)
    /\ (~resp.star.present \/ ~resp.plain.present) => resp.star_first

ResolveName ==
    /\ ~resp.resolved
    /\ resp' = [resp EXCEPT !.resolved = TRUE,
                            !.filename = resolve_simple_filename(resp.has_out, resp.out,
                                             resp.has_cd, ContentDisposition(resp),
                                             UrlPath(resp))]
    /\ UNCHANGED <<executable, no_proxy, engineVars, xfer, disk, target, pc,
                   localVars, histVars, opts, admin, outcome, calls>>

FileNext == ResolveName

FileSpec == FileInit /\ [][FileNext]_vars

\* ==== properties ============================================================
Running(t) == pc[t] \notin {"idle", "done"}

RpcPending(t) == pc[t] \in {"handshake", "add_uris", "get_download", "poll", "purge"}

Raised(t, out) == pc[t] = "done" /\ outcome[t] = out

\* C1: every foreground download() call eventually returns to its caller,
\* whatever the engine does, also when the engine reports the transfer as
\* active for ever and every poll is answered.
C1_EveryCallReturns ==
    \A t \in Callers : (Running(t) /\ ~background[t]) ~> (pc[t] = "done")

\* C2: concurrent first-time initialisation is serialised: two callers are
\* never both waiting for the handshake of an engine each of them launched,
\* so the engine is launched once and the port is chosen once.
C2_SingleLaunch ==
    \A t, u \in Callers :
        (pc[t] = "handshake" /\ pc[u] = "handshake") => client[t] = client[u]

\* C3: an answered poll resets the transport-failure counter, so that in the
\* poll loop the counter is the number of consecutive failed polls.
C3_AnsweredPollResetsCounter ==
    \A t \in Callers : pc[t] = "poll" => retry_count[t] = streak[t]

\* C4: the poll loop raises the transport error exactly at the 16th
\* consecutive failed poll: runs of up to 15 consecutive failures are
\* tolerated.
C4_RaisedAtSixteenthConsecutive ==
    \A t \in Callers : Raised(t, "PollError") => streak[t] = RetryLimit + 1

\* C5: a call in which every engine launch/handshake attempt fails makes
\* exactly two attempts and never a third, fails with the error of the last
\* attempt, submits no transfer and leaves the engine handle null.
C5_TwoAttemptsThenLastError ==
    \A t \in Callers :
        /\ attempt[t] <= MaxAttempts
        /\ pc[t] \in {"port", "handshake"} => attempt[t] < MaxAttempts
        /\ Raised(t, "InitError") =>
              /\ attempt[t] = MaxAttempts
              /\ ex[t].at = MaxAttempts
              /\ ex[t].kind \in {"PopenError", "HandshakeError"}
              /\ xfer[t] = NoXfer
              /\ aria2 = 0
              /\ aria2_process = 0

C5_Witness ==
    \E t \in Callers :
        /\ Raised(t, "InitError")
        /\ ex[t] = [kind |-> "HandshakeError", at |-> MaxAttempts]
        /\ launched >= MaxAttempts
        /\ calls = MaxCalls

\* C6: when a transport failure of the submit call or of the polls reaches
\* the caller, the engine handle has been torn down and is null.
C6_HandleNulledOnFailure ==
    \A t \in Callers :
        (pc[t] = "done" /\ outcome[t] \in {"SubmitError", "FirstPollError", "PollError"})
            => aria2 = 0

\* C7: with download() calls made one after the other, at most one engine
\* process started by the supervisor is running at any time.
C7_AtMostOneEngineProcess == Cardinality(alive) <= 1

\* C8: whenever a download() call is making an RPC to the loopback engine,
\* no_proxy holds the loopback bypass value.
C8_BypassDuringRpc ==
    \A t \in Callers : RpcPending(t) => no_proxy = Bypass

\* C9: when the poll loop ends with error code '31', the call raises
\* DownloadInterrupted and none of the listed files is on disk at that moment.
C9_InterruptedRemovesFiles ==
    \A t \in Callers :
        (pc[t] = "done" /\ info[t].error_code = "31")
            => (outcome[t] = "DownloadInterrupted" /\ disk[t] = {})

\* C10: after a foreground transfer that ends with DownloadInterrupted or
\* with the generic download failure, no output file of it is left on disk.
C10_NoPartialFileAfterError ==
    \A t \in Callers :
        (pc[t] = "done" /\ outcome[t] \in {"DownloadInterrupted", "DownloadFailed"})
            => disk[t] = {}

\* C11: a foreground transfer that the engine refuses with code '13' because
\* its file already exists is a success: the call returns its status without
\* raising and removes none of the listed files, which are all still on disk;
\* so the second of two identical requests succeeds like the first.
C11_ExistingFileIsSuccess ==
    \A t \in Callers :
        (pc[t] = "done" /\ info[t].error_code = "13")
            => (outcome[t] = "ok" /\ deleted[t] = {} /\ disk[t] = Files)

C11_Witness ==
    \E t \in Callers :
        /\ Raised(t, "ok")
        /\ info[t] = [status |-> "error", error_code |-> "13"]
        /\ disk[t] = Files
        /\ calls = MaxCalls

\* C12: both transports treat a destination file that already exists in the
\* same way: the RPC path reuses it (code '13', nothing removed) and the
\* fallback transport leaves it in place, neither removed nor rewritten.
C12_ExistingFileReusedOnBothPaths ==
    \A t \in Callers :
        /\ (pc[t] = "done" /\ info[t].error_code = "13") => deleted[t] = {}
        /\ existed[t] => target[t] = "old"

\* C13: when the poll loop ends with a status that is neither complete nor
\* paused and the error code is null or '0', the call raises
\* DownloadNotCompleted and no other error.
C13_NotCompletedWithoutErrorCode ==
    \A t \in Callers :
        (/\ pc[t] = "done"
         /\ info[t].status \in {"waiting", "error", "removed"}
         /\ info[t].error_code \in {"none", "0"})
            => outcome[t] = "DownloadNotCompleted"

\* C14: a polling caller whose transfer the engine reports as paused gets
\* DownloadPaused; that call removes no listed file and does not call purge.
C14_PausedRaisesDownloadPaused ==
    \A t \in Callers :
        (pc[t] = "done" /\ info[t].status = "paused")
            => (outcome[t] = "DownloadPaused" /\ deleted[t] = {} /\ purge_calls[t] = 0)

C14_Witness ==
    \E t \in Callers :
        /\ Raised(t, "DownloadPaused")
        /\ xfer[t].status = "paused"
        /\ ~background[t]

\* C15: a foreground RPC-path call that returns a success result has called
\* purge exactly once, also when the success comes from code '13'; no call
\* purges twice, and none purges before its transfer is complete.
C15_SuccessPurgedExactlyOnce ==
    \A t \in Callers :
        /\ purge_calls[t] <= 1
        /\ purge_calls[t] > 0 => is_complete(info[t])
        /\ (Raised(t, "ok") /\ ~background[t] /\ target[t] = "unresolved")
              => purge_calls[t] = 1

\* C16: a failure to delete a file during cleanup is not escalated: no call
\* ends with the error of the failed deletion, on the RPC path or in the
\* fallback transport.
C16_CleanupFailureNotEscalated ==
    \A t \in Callers : pc[t] = "done" => outcome[t] # "OSError"

\* C17: for every key of the caller's options the value submitted to the
\* engine is the caller's value.
C17_CallerOptionsWin ==
    (opts.sent /\ opts.has_options)
        => \A k \in DOMAIN opts.options : opts.submitted[k] = opts.options[k]

\* C18: without an engine executable no process is launched and no handle is
\* made, no call fails for want of the engine, a foreground call runs the
\* fallback transport, and its success is a completed result whose one listed
\* file, the target, is on disk.
C18_FallbackWithoutEngine ==
    ~executable =>
        /\ launched = 0
        /\ aria2 = 0
        /\ \A t \in Callers :
            /\ ex[t].kind # "EngineUnavailable"
            /\ outcome[t] # "InitError"
            /\ (Running(t) /\ ~background[t]) => pc[t] \in {"http_get", "stream"}
            /\ Raised(t, "ok") => (target[t] = "complete" /\ info[t] = SimpleInfo)

C18_Witness ==
    \E t \in Callers :
        /\ ~executable
        /\ Raised(t, "ok")
        /\ ~background[t]
        /\ target[t] = "complete"

\* C19: a background request made when no engine is available is refused at
\* once: the call is never under way, no directory is made, no HTTP request
\* is sent, no file is resolved, written or removed and no process launched.
C19_BackgroundRejectedBeforeStart ==
    \A t \in Callers :
        /\ (background[t] /\ ~executable) => Raised(t, "BackgroundUnsupported")
        /\ Raised(t, "BackgroundUnsupported") =>
              /\ target[t] = "unresolved"
              /\ ~existed[t]
              /\ xfer[t] = NoXfer
              /\ deleted[t] = {}
              /\ launched = 0
              /\ aria2 = 0

C19_Witness ==
    \E t \in Callers :
        /\ Raised(t, "BackgroundUnsupported")
        /\ background[t]
        /\ calls = MaxCalls

\* C20: a fallback download that fails after its target path was resolved
\* ends with the generic fallback failure and leaves no partial file.
C20_FallbackFailureLeavesNoPartial ==
    \A t \in Callers :
        (pc[t] = "done" /\ target[t] \in {"partial", "absent", "old"})
            => (target[t] = "absent" /\ outcome[t] = "SimpleDownloadFailed")

\* C21: the resolved filename is the first of these that is not empty: the
\* 'out' option, the decoded filename*= value of the header, the decoded
\* filename= value of the header, the decoded last segment of the URL path,
\* the generated name; it is never the empty string.
C21_FilenameByPriority ==
    resp.resolved =>
        /\ resp.filename # NoName
        /\ resp.filename =
              IF resp.has_out /\ resp.out # NoName THEN resp.out
              ELSE IF resp.star.present /\ resp.star.value # NoName
              THEN Unquote(resp.star.value)
              ELSE IF resp.plain.present /\ resp.plain.value # NoName
              THEN Unquote(resp.plain.value)
              ELSE IF resp.base # NoName THEN Unquote(resp.base)
              ELSE GeneratedName

C21_Witness ==
    /\ resp.resolved
    /\ ~resp.has_out
    /\ resp.star.present /\ resp.star.value = NoName
    /\ resp.plain.present /\ resp.plain.wrapped /\ ~resp.star_first
    /\ resp.plain.value = <<"%41">>
    /\ resp.base = <<"a">>
    /\ resp.filename = <<"A">>

\* C22: when the loop ends not paused with an error code other than '0',
\* '13' and '31', the call raises the generic download failure: it returns no
\* success and raises none of DownloadInterrupted, DownloadPaused and
\* DownloadNotCompleted, and it removes no file and calls no purge.
C22_OtherCodeRaisesGenericFailure ==
    \A t \in Callers :
        (/\ pc[t] = "done"
         /\ info[t].status \notin {"none", "paused"}
         /\ info[t].error_code \notin {"none", "0", "13", "31"})
            => (outcome[t] = "DownloadFailed" /\ deleted[t] = {} /\ purge_calls[t] = 0)

C22_Witness ==
    \E t \in Callers :
        /\ Raised(t, "DownloadFailed")
        /\ info[t] = [status |-> "error", error_code |-> "1"]
        /\ ~background[t]

\* C23: a background call with an engine submits its transfer and returns
\* the handle at once: it is never suspended in a status poll or a purge, has
\* read no status, raises no error of the classifier and calls no purge.
C23_BackgroundReturnsAfterSubmit ==
    \A t \in Callers :
        background[t] =>
            /\ pc[t] \notin {"get_download", "poll", "purge"}
            /\ info[t] = NoInfo
            /\ purge_calls[t] = 0
            /\ outcome[t] \notin {"DownloadPaused", "DownloadInterrupted", "DownloadFailed",
                                  "DownloadNotCompleted", "FirstPollError", "PollError",
                                  "PurgeError"}
            /\ Raised(t, "ok") => xfer[t].eng # 0

C23_Witness ==
    \E t \in Callers :
        /\ background[t]
        /\ Raised(t, "ok")
        /\ xfer[t].status = "paused"

\* C24: a foreground transfer that the engine has completed stays known to
\* the engine while its caller is still fetching its status, so that the
\* purge of another caller never makes that fetch fail, and a caller whose
\* completed transfer was purged has received a success.
C24_PurgeSparesOtherCallers ==
    \A t \in Callers :
        (completed[t] /\ ~background[t]) =>
            /\ pc[t] \in {"get_download", "poll"} => xfer[t].status = "complete"
            /\ (pc[t] = "done" /\ xfer[t] = NoXfer) => outcome[t] = "ok"

\* C25: no caller is submitting a transfer through the global handle while
\* the handshake of the engine that handle names is still pending.
C25_NoSubmitBeforeHandshake ==
    \A t, u \in Callers :
        ~(pc[t] = "add_uris" /\ aria2 # 0 /\ pc[u] = "handshake" /\ client[u] = aria2)

\* The global handle names an engine whose handshake has succeeded.
Verified ==
    /\ aria2 # 0
    /\ \A u \in Callers : ~(pc[u] = "handshake" /\ client[u] = aria2)

\* C26: a handle that was stored and verified is not cleared or replaced by
\* the launch attempt of another caller: it stays non-null and keeps naming
\* the same engine.
C26_VerifiedHandleKept == [][Verified => aria2' = aria2]_vars

\* C27: a fallback download that fails leaves a target file that existed
\* before the call in place, with its old content.
C27_FailedFallbackKeepsOldFile ==
    \A t \in Callers :
        (pc[t] = "done" /\ outcome[t] # "ok" /\ existed[t]) => target[t] = "old"

\* C28: a transport failure of a status fetch reaches the caller only when
\* the retries are used up, for the first fetch after the submit as for the
\* fetches of the loop.
C28_FirstFetchRetried ==
    \A t \in Callers :
        (pc[t] = "done" /\ outcome[t] \in {"FirstPollError", "PollError"})
            => retry_count[t] > RetryLimit

\* C29: once every call that was started has returned or raised, no_proxy is
\* absent as it was before the first call, and no call has ended with the
\* error of a failed restore.
C29_NoProxyRestored ==
    /\ \A t \in Callers : outcome[t] # "KeyError"
    /\ (calls > 0 /\ \A t \in Callers : pc[t] \in {"idle", "done"}) => no_proxy = Absent

\* C30: a stop or pause request made while the engine handle is null is
\* answered False and changes nothing: no engine is located or launched, no
\* port is chosen, no RPC is made and the handle stays null.
C30_AdminWithoutHandleIsNoOp ==
    [][(admin = "none" /\ admin' # "none" /\ aria2 = 0) =>
          /\ admin' = "False"
          /\ UNCHANGED <<executable, no_proxy, engineVars, xfer, disk, target, pc,
                         localVars, histVars, outcome, calls>>]_vars

C30_Witness ==
    /\ admin = "False"
    /\ aria2 = 0
    /\ \E t \in Callers : pc[t] = "port"

====
